---- MODULE Spec2Model ----
(***************************************************************************)
(* Hybrid memory search of code-memory-be: SearchMemoryService             *)
(* (app/services/search_memory_service.py) with the Record Store, the      *)
(* Embedding Provider and the Result Cache it talks to.                    *)
(*                                                                         *)
(* Scores are Python floats in [0.0, 1.0]; here they are integers in units *)
(* of 1/ONE, so that every product and quotient the code forms on the      *)
(* modelled inputs is exact.                                               *)
(***************************************************************************)
EXTENDS Integers, Sequences, FiniteSets, TLC

(***************************************************************************)
(* Bounds of the model.                                                    *)
(***************************************************************************)
MaxMem == 3
MaxSearches == 2

(***************************************************************************)
(* Program constants (search_memory_service.py:26-31), in units of 1/ONE.  *)
(***************************************************************************)
ONE == 12000
VECTOR_WEIGHT == 8400
KEYWORD_WEIGHT == 3600
HYBRID_BOOST == 1200
TAG_BOOST == 1800
PHRASE_BOOST == 3000
CACHE_TTL == 3600
MIN_MATCHED_TOKENS == 2
MIN_MATCH_RATIO == 3000
FETCH_FACTOR == 5
FETCH_MIN == 50

None == "None"

STOPWORDS ==
  {"the","is","in","at","which","on","and","a","an","how","do","i","to",
   "for","of","use","uses","using","with","that","this","it","be","are",
   "was","were","by","from","as","have","has","had","or","but"}

(***************************************************************************)
(* Python builtins on numbers and sequences.                               *)
(***************************************************************************)
\* min(a, b) that never takes the bound b
Min2_Unclamped(a, b) == a

\* min(a, b)
Min2(a, b) == IF b < a THEN b ELSE a
Max2(a, b) == IF b > a THEN b ELSE a

Range(s) == {s[i] : i \in 1..Len(s)}

\* The function f as an explicit table of its values
Table(f) == f @@ <<>>

\* s[:] for s[:n]
Take_All(s, n) == s

\* s[:n]
Take(s, n) == SubSeq(s, 1, IF n < Len(s) THEN n ELSE Len(s))

\* list.sort(key=..., reverse=True): stable, descending by key.  Before(a, b)
\* is "key(a) > key(b)"; elements with equal keys keep their order.
SortDesc(s, Before(_, _)) ==
  LET n == Len(s)
      pos == [i \in 1..n |->
                1 + Cardinality({j \in 1..n : Before(s[j], s[i])})
                  + Cardinality({j \in 1..(i - 1) :
                                   ~Before(s[j], s[i]) /\ ~Before(s[i], s[j])})]
      at == [p \in 1..n |-> CHOOSE i \in 1..n : pos[i] = p]
  IN [p \in 1..n |-> s[at[p]]]

(***************************************************************************)
(* Python str operations, on TLC strings.                                  *)
(***************************************************************************)
Ch(s, i) == SubSeq(s, i, i)

UPPER == "ABCDEFGHIJKLMNOPQRSTUVWXYZ"
LOWER == "abcdefghijklmnopqrstuvwxyz"
DIGITS == "0123456789"

CharIn(c, alphabet) == \E i \in 1..Len(alphabet) : Ch(alphabet, i) = c

LowerChar(c) ==
  IF CharIn(c, UPPER)
  THEN Ch(LOWER, CHOOSE i \in 1..Len(UPPER) : Ch(UPPER, i) = c)
  ELSE c

\* str.lower()
RECURSIVE StrLower(_)
StrLower(s) == IF s = "" THEN "" ELSE LowerChar(Ch(s, 1)) \o StrLower(Tail(s))

IsSpace(c) == c = " "

\* str.strip()
RECURSIVE LStrip(_)
LStrip(s) == IF s # "" /\ IsSpace(Ch(s, 1)) THEN LStrip(Tail(s)) ELSE s

RECURSIVE RStrip(_)
RStrip(s) ==
  IF s # "" /\ IsSpace(Ch(s, Len(s))) THEN RStrip(SubSeq(s, 1, Len(s) - 1)) ELSE s

Strip(s) == RStrip(LStrip(s))

\* "sub in s"
Contains(s, sub) ==
  \E i \in 0..(Len(s) - Len(sub)) : SubSeq(s, i + 1, i + Len(sub)) = sub

\* regex \w
IsWordChar(c) == CharIn(c, LOWER) \/ CharIn(c, UPPER) \/ CharIn(c, DIGITS) \/ c = "_"

NotSpace(c) == ~IsSpace(c)

KeepChar(c, class) == IF class = "word" THEN IsWordChar(c) ELSE NotSpace(c)

\* Maximal runs of characters of one class, left to right.
RECURSIVE Runs(_, _, _)
Runs(s, cur, class) ==
  IF s = "" THEN (IF cur = "" THEN <<>> ELSE <<cur>>)
  ELSE IF KeepChar(Ch(s, 1), class) THEN Runs(Tail(s), cur \o Ch(s, 1), class)
       ELSE (IF cur = "" THEN <<>> ELSE <<cur>>) \o Runs(Tail(s), "", class)

\* str.split()
Split(s) == Runs(s, "", "nonspace")

\* re.findall(r"\w+", s)
FindWords(s) == Runs(s, "", "word")

\* sep.join(parts)
RECURSIVE Join(_, _)
Join(parts, sep) ==
  IF parts = <<>> THEN ""
  ELSE IF Len(parts) = 1 THEN parts[1]
       ELSE parts[1] \o sep \o Join(Tail(parts), sep)

\* list(dict.fromkeys(s)): first occurrences, in order
RECURSIVE Dedup(_)
Dedup(s) ==
  IF s = <<>> THEN <<>>
  ELSE LET d == Dedup(SubSeq(s, 1, Len(s) - 1))
       IN IF s[Len(s)] \in Range(d) THEN d ELSE Append(d, s[Len(s)])

\* sorted(list of str): ascending by code point
ASCII == " 0123456789ABCDEFGHIJKLMNOPQRSTUVWXYZ_abcdefghijklmnopqrstuvwxyz"

CharCode(c) == CHOOSE i \in 1..Len(ASCII) : Ch(ASCII, i) = c

RECURSIVE StrLess(_, _)
StrLess(a, b) ==
  IF b = "" THEN FALSE
  ELSE IF a = "" THEN TRUE
  ELSE IF Ch(a, 1) = Ch(b, 1) THEN StrLess(Tail(a), Tail(b))
  ELSE CharCode(Ch(a, 1)) < CharCode(Ch(b, 1))

StrAfter(a, b) == StrLess(b, a)

Reverse(s) == [i \in 1..Len(s) |-> s[Len(s) + 1 - i]]

Sorted(strs) == Reverse(SortDesc(Reverse(strs), StrAfter))

\* The elements of a finite set of numbers, smallest first
RECURSIVE Ascending(_)
Ascending(S) ==
  IF S = {} THEN <<>>
  ELSE LET least == CHOOSE x \in S : \A y \in S : x <= y
       IN <<least>> \o Ascending(S \ {least})

\* All orderings of a finite set, as sequences without repetition.
SeqsOf(S) ==
  {s \in [1..Cardinality(S) -> S] : \A i, j \in 1..Cardinality(S) : s[i] = s[j] => i = j}

(***************************************************************************)
(* The Record Store's rows (app/models/memory_models.py, class Memory).    *)
(* An absent summary is "", an absent embedding is <<>>: the search code   *)
(* reads both only through "x or default" and truthiness tests.            *)
(***************************************************************************)
MemoryIds == 1..MaxMem

\* The rows of a batch of FETCH_MIN saves: ids and creation times after
\* those of every other row.
BatchIds == 101..(100 + FETCH_MIN)

Memory(i) ==
  CASE i = 1 -> [id |-> 1, project_id |-> "p1",
                 content |-> "JWT authentication flow in FastAPI", summary |-> "",
                 tags |-> <<"auth", "sql">>, embedding |-> <<4, 3>>, created_at |-> 1]
    [] i = 2 -> [id |-> 2, project_id |-> "p2",
                 content |-> "jwt authentication basics", summary |-> "",
                 tags |-> <<"security">>, embedding |-> <<4, 3>>, created_at |-> 2]
    [] i = 3 -> [id |-> 3, project_id |-> "p1",
                 content |-> "database indexing", summary |-> "JWT",
                 tags |-> <<"Security", "sql">>, embedding |-> <<5>>, created_at |-> 3]
    [] OTHER -> [id |-> i, project_id |-> "p2",
                 content |-> "python flow tips", summary |-> "",
                 tags |-> <<>>, embedding |-> <<>>, created_at |-> i]

(***************************************************************************)
(* Requests (app/schemas/memory_schemas.py, SearchMemoryRequest).  An      *)
(* absent tag list is <<>>: search_memory reads tags only through          *)
(* "if tags" and "tags or []".                                             *)
(***************************************************************************)
Queries ==
  {"", "  ", "JWT authentication flow", " JWT authentication flow ", " how to ",
   "how to implement JWT authentication", "jwt JWT flow",
   "jwt basics oauth token login session cookie refresh expiry scope"}
Projects == {None, "p1"}
TagLists == {<<>>, <<"security">>, <<"sql", "sec">>, <<"sec", "sql">>}
Limits == {1, 2}
Thresholds == {8400}
TopKs == {1, 2}

AllRequests ==
  [query : Queries, project_id : Projects, tags : TagLists, limit : Limits,
   similarity_threshold : Thresholds, top_k : TopKs]

Request(q, p, t, l, k) ==
  [query |-> q, project_id |-> p, tags |-> t, limit |-> l,
   similarity_threshold |-> 8400, top_k |-> k]

\* The requests that are sent: the two invalid queries; the full query
\* unscoped, cut to one result, scoped to a project, with a tag, with two tags
\* in either order, with a limit of one and with blanks around it; a query of
\* stopwords only; a query of ten tokens.
Requests ==
  {Request("", None, <<>>, 2, 2),
   Request("  ", None, <<>>, 2, 2),
   Request("JWT authentication flow", None, <<>>, 2, 2),
   Request("JWT authentication flow", None, <<>>, 2, 1),
   Request("JWT authentication flow", "p1", <<>>, 2, 2),
   Request("JWT authentication flow", None, <<"security">>, 2, 2),
   Request("JWT authentication flow", None, <<"sql", "sec">>, 2, 2),
   Request("JWT authentication flow", None, <<"sec", "sql">>, 2, 2),
   Request("JWT authentication flow", None, <<>>, 1, 2),
   Request(" JWT authentication flow ", None, <<>>, 2, 2),
   Request(" how to ", None, <<>>, 2, 2),
   Request("jwt basics oauth token login session cookie refresh expiry scope",
           None, <<>>, 2, 2)}

\* The requests that are sent to a store holding a batch of rows
BatchRequests ==
  {Request("JWT authentication flow", None, <<>>, 2, 2),
   Request("JWT authentication flow", None, <<>>, 1, 2),
   Request("JWT authentication flow", "p1", <<>>, 2, 2)}

(***************************************************************************)
(* _calculate_cosine_similarity                                            *)
(***************************************************************************)
ISqrt(n) == CHOOSE r \in 0..n : r * r <= n /\ (r + 1) * (r + 1) > n

RECURSIVE Dot(_, _)
Dot(a, b) ==
  IF a = <<>> \/ b = <<>> THEN 0 ELSE Head(a) * Head(b) + Dot(Tail(a), Tail(b))

_calculate_cosine_similarity(vec1, vec2) ==
  LET dot_product == Dot(vec1, vec2)
      magnitude1 == ISqrt(Dot(vec1, vec1))
      magnitude2 == ISqrt(Dot(vec2, vec2))
  IN IF magnitude1 = 0 \/ magnitude2 = 0 THEN 0
     ELSE LET cosine_sim == (dot_product * ONE) \div (magnitude1 * magnitude2)
              normalized_sim == (cosine_sim + ONE) \div 2
          IN Max2(0, Min2(normalized_sim, ONE))

(***************************************************************************)
(* _vector_search, from the store query to the returned list.              *)
(***************************************************************************)
\* func.array_to_string(Memory.tags, ',').like('%tag%') for some request tag
TagFilterMatches(m, tags) ==
  \E i \in 1..Len(tags) : Contains(Join(m.tags, ","), tags[i])

\* The rows of select(Memory).where(and_(*query_conditions))
VectorRowIds(rowIds, project_id, tags) ==
  {i \in rowIds :
     /\ (project_id # None => Memory(i).project_id = project_id)
     /\ (tags # <<>> => TagFilterMatches(Memory(i), tags))
     /\ Memory(i).embedding # <<>>}

MemoryDict(m, score, search_type) ==
  [id |-> m.id, content |-> m.content, summary |-> m.summary, tags |-> m.tags,
   project_id |-> m.project_id, created_at |-> m.created_at,
   score |-> score, search_type |-> search_type]

ScoreBefore(a, b) == a.score > b.score

\* rows: the fetched memories in the order the store returned them
\* the lengths are not compared
Usable_AnyLength(m, embedding) == m.embedding # <<>>

\* "if memory.embedding and len(memory.embedding) == len(query_embedding)"
Usable(m, embedding) == m.embedding # <<>> /\ Len(m.embedding) = Len(embedding)

\* "if similarity >= similarity_threshold" is left out
VectorCandidates_NoThreshold(rows, embedding, limit, similarity_threshold) ==
  LET usable(m) == Usable(m, embedding)
      sim(m) == _calculate_cosine_similarity(embedding, m.embedding)
      kept == SelectSeq(rows, usable)
      similar_memories == [i \in 1..Len(kept) |-> MemoryDict(kept[i], sim(kept[i]), "vector")]
  IN Take(SortDesc(similar_memories, ScoreBefore), limit)

VectorCandidates(rows, embedding, limit, similarity_threshold) ==
  LET usable(m) == Usable(m, embedding)
      sim(m) == _calculate_cosine_similarity(embedding, m.embedding)
      keep(m) == usable(m) /\ sim(m) >= similarity_threshold
      kept == SelectSeq(rows, keep)
      similar_memories == [i \in 1..Len(kept) |-> MemoryDict(kept[i], sim(kept[i]), "vector")]
  IN Take(SortDesc(similar_memories, ScoreBefore), limit)

(***************************************************************************)
(* keyword_search                                                          *)
(***************************************************************************)
\* the stopwords are kept
TokenOk_WithStopwords(t) == t # "" /\ Len(t) >= 3

\* "if t and t not in STOPWORDS and len(t) >= 3"
TokenOk(t) == t # "" /\ t \notin STOPWORDS /\ Len(t) >= 3

RECURSIVE TokenParts(_)
TokenParts(keywords) ==
  IF keywords = <<>> THEN <<>>
  ELSE FindWords(StrLower(Head(keywords))) \o TokenParts(Tail(keywords))

Tokenize(keywords) == SelectSeq(Dedup(TokenParts(keywords)), TokenOk)

CombinedText(m) == StrLower(Join(<<m.content, m.summary, Join(m.tags, " ")>>, " "))

\* The lowercased texts of each row: func.lower(Memory.content),
\* func.lower(Memory.summary), func.lower(array_to_string(Memory.tags, ' '))
\* and the string "combined" of the scoring loop
RowText ==
  Table([i \in MemoryIds \cup BatchIds |->
     [content  |-> StrLower(Memory(i).content),
      summary  |-> StrLower(Memory(i).summary),
      tags     |-> StrLower(Join(Memory(i).tags, " ")),
      combined |-> CombinedText(Memory(i))]])

\* where_clause without "Memory.project_id == project_id"
KeywordRowMatches_AnyProject(m, token_segments, project_id) ==
  \E i \in 1..Len(token_segments) :
    \/ Contains(RowText[m.id].content, token_segments[i])
    \/ Contains(RowText[m.id].summary, token_segments[i])
    \/ Contains(RowText[m.id].tags, token_segments[i])

\* where_clause: some token is LIKE-contained in content, summary or tags
KeywordRowMatches(m, token_segments, project_id) ==
  /\ (project_id # None => m.project_id = project_id)
  /\ \E i \in 1..Len(token_segments) :
       \/ Contains(RowText[m.id].content, token_segments[i])
       \/ Contains(RowText[m.id].summary, token_segments[i])
       \/ Contains(RowText[m.id].tags, token_segments[i])

CreatedBefore(a, b) == a.created_at > b.created_at

\* .order_by(Memory.created_at.desc()).limit(fetch_limit)
\* the rows are fetched oldest first
KeywordRows_OldestFirst(rowIds, token_segments, project_id, limit) ==
  LET fetch_limit == Max2(limit * FETCH_FACTOR, FETCH_MIN)
      ids == {i \in rowIds : KeywordRowMatches(Memory(i), token_segments, project_id)}
      anyOrder == Ascending(ids)
      rows == [i \in 1..Len(anyOrder) |-> Memory(anyOrder[i])]
  IN Take(Reverse(SortDesc(rows, CreatedBefore)), fetch_limit)

KeywordRows(rowIds, token_segments, project_id, limit) ==
  LET fetch_limit == Max2(limit * FETCH_FACTOR, FETCH_MIN)
      ids == {i \in rowIds : KeywordRowMatches(Memory(i), token_segments, project_id)}
      anyOrder == Ascending(ids)
      rows == [i \in 1..Len(anyOrder) |-> Memory(anyOrder[i])]
  IN Take(SortDesc(rows, CreatedBefore), fetch_limit)

Matched(m, token_segments) ==
  Cardinality({i \in 1..Len(token_segments) :
                 Contains(RowText[m.id].combined, token_segments[i])})

\* float(score + phrase_bonus), without the clamp
KeywordScore_Unclamped(m, token_segments, full_query) ==
  LET score == (Matched(m, token_segments) * ONE) \div Len(token_segments)
      fq == Strip(StrLower(full_query))
      phrase_bonus == IF fq # "" /\ Contains(RowText[m.id].combined, fq) THEN PHRASE_BOOST ELSE 0
  IN score + phrase_bonus

KeywordScore(m, token_segments, full_query) ==
  LET score == (Matched(m, token_segments) * ONE) \div Len(token_segments)
      fq == Strip(StrLower(full_query))
      phrase_bonus == IF fq # "" /\ Contains(RowText[m.id].combined, fq) THEN PHRASE_BOOST ELSE 0
  IN Min2(score + phrase_bonus, ONE)

\* "if matched < min_matched_tokens or score < min_match_ratio"
WeakMatch_Either(m, token_segments) ==
  \/ Matched(m, token_segments) < MIN_MATCHED_TOKENS
  \/ (Matched(m, token_segments) * ONE) \div Len(token_segments) < MIN_MATCH_RATIO

\* "if matched < min_matched_tokens and score < min_match_ratio"
WeakMatch(m, token_segments) ==
  /\ Matched(m, token_segments) < MIN_MATCHED_TOKENS
  /\ (Matched(m, token_segments) * ONE) \div Len(token_segments) < MIN_MATCH_RATIO

KeywordBefore(a, b) ==
  \/ a.score > b.score
  \/ a.score = b.score /\ a.created_at > b.created_at

KeywordCandidates(rows, token_segments, limit, full_query) ==
  LET keep(m) == ~WeakMatch(m, token_segments) /\ Matched(m, token_segments) > 0
      kept == SelectSeq(rows, keep)
      candidates == [i \in 1..Len(kept) |->
                       MemoryDict(kept[i], KeywordScore(kept[i], token_segments, full_query),
                                  "keyword")]
  IN Take(SortDesc(candidates, KeywordBefore), limit)

(***************************************************************************)
(* _rank_results                                                           *)
(***************************************************************************)
\* the score is taken as it is
Weighted_Plain(score, weight) == score

\* score * weight
Weighted(score, weight) == (score * weight) \div ONE

\* the entry is added without a look at the ids that are there
DictPut_Append(d, e) == Append(d, e)

\* combined_results[e.id] = e : a dict keeps the position of the first insertion
DictPut(d, e) ==
  IF \E i \in 1..Len(d) : d[i].id = e.id
  THEN [i \in 1..Len(d) |-> IF d[i].id = e.id THEN e ELSE d[i]]
  ELSE Append(d, e)

WithScores(r, vector_score, keyword_score, combined_score, search_type) ==
  [id |-> r.id, content |-> r.content, summary |-> r.summary, tags |-> r.tags,
   project_id |-> r.project_id, created_at |-> r.created_at,
   vector_score |-> vector_score, keyword_score |-> keyword_score,
   combined_score |-> combined_score, search_type |-> search_type]

RECURSIVE AddVectorResults(_, _)
AddVectorResults(d, vector_list) ==
  IF vector_list = <<>> THEN d
  ELSE LET r == Head(vector_list)
       IN AddVectorResults(
            DictPut(d, WithScores(r, r.score, 0, Weighted(r.score, VECTOR_WEIGHT),
                                  r.search_type)),
            Tail(vector_list))

\* the merged entry keeps the provenance it had
HybridType_Kept(existing) == existing.search_type

\* existing["search_type"] = "hybrid"
HybridType(existing) == "hybrid"

RECURSIVE AddKeywordResults(_, _)
AddKeywordResults(d, keyword_list) ==
  IF keyword_list = <<>> THEN d
  ELSE LET r == Head(keyword_list)
           found == \E i \in 1..Len(d) : d[i].id = r.id
           existing == d[CHOOSE i \in 1..Len(d) : d[i].id = r.id]
           merged ==
             WithScores(existing, existing.vector_score, r.score,
                        Min2(Weighted(existing.vector_score, VECTOR_WEIGHT)
                               + Weighted(r.score, KEYWORD_WEIGHT) + HYBRID_BOOST, ONE),
                        HybridType(existing))
           alone ==
             WithScores(r, 0, r.score, Min2(Weighted(r.score, KEYWORD_WEIGHT), ONE),
                        r.search_type)
       IN AddKeywordResults(DictPut(d, IF found THEN merged ELSE alone),
                            Tail(keyword_list))

NormTags(tags) == [i \in 1..Len(tags) |-> Strip(StrLower(tags[i]))]

\* any(rt in doc_tags or any(rt in dt for dt in doc_tags) for rt in req_tags_norm)
TagMatch(res_tags, req_tags_norm) ==
  LET doc_tags == NormTags(res_tags)
  IN \E i \in 1..Len(req_tags_norm) :
       \/ req_tags_norm[i] \in Range(doc_tags)
       \/ \E j \in 1..Len(doc_tags) : Contains(doc_tags[j], req_tags_norm[i])

CombinedBefore(a, b) == a.combined_score > b.combined_score

TagMatchTab ==
  Table([dt \in {Memory(i).tags : i \in MemoryIds \cup BatchIds}, rt \in TagLists |->
     TagMatch(dt, NormTags(rt))])

ApplyTagBoosts(final_results, request_tags) ==
  [i \in 1..Len(final_results) |->
     IF TagMatchTab[final_results[i].tags, request_tags]
     THEN [final_results[i] EXCEPT
             !.combined_score = Min2(final_results[i].combined_score + TAG_BOOST, ONE)]
     ELSE final_results[i]]

\* the tag boosts are applied and the list is left in its earlier order
Resort_Skipped(final_results) == final_results

\* final_results.sort(...) after the tag boosts
Resort(final_results) == SortDesc(final_results, CombinedBefore)

Ranked(result, i) ==
  [id |-> result.id, content |-> result.content, summary |-> result.summary,
   tags |-> result.tags, project_id |-> result.project_id,
   created_at |-> result.created_at,
   score |-> Max2(0, Min2(result.combined_score, ONE)),
   search_type |-> result.search_type, rank |-> i]

\* final_results when the loop over final_results[:top_k] is entered
FinalResults(vector_list, keyword_list, request_tags) ==
  LET combined_results == AddKeywordResults(AddVectorResults(<<>>, vector_list),
                                            keyword_list)
      sorted1 == SortDesc(combined_results, CombinedBefore)
      boosted == ApplyTagBoosts(sorted1, request_tags)
  IN Resort(boosted)

_rank_results(vector_list, keyword_list, top_k, request_tags) ==
  LET final_results == FinalResults(vector_list, keyword_list, request_tags)
      top == Take(final_results, top_k)
  IN [i \in 1..Len(top) |-> Ranked(top[i], i)]

\* The dicts of the two lists are the dicts _rank_results works on: it writes
\* vector_score, keyword_score, combined_score and search_type into them, and
\* score and rank into those of the first top_k.  The dict of record id when
\* _rank_results returns:
DictAfterRank(id, final_results, top_k) ==
  LET i == CHOOSE j \in 1..Len(final_results) : final_results[j].id = id
  IN IF i <= top_k THEN Ranked(final_results[i], i) ELSE final_results[i]

\* vector_results after _rank_results: every dict of it is in combined_results
VectorListAfterRank(vector_list, keyword_list, top_k, request_tags) ==
  LET final_results == FinalResults(vector_list, keyword_list, request_tags)
  IN [j \in 1..Len(vector_list) |->
        DictAfterRank(vector_list[j].id, final_results, top_k)]

\* keyword_results after _rank_results: the dict of a record that is also in
\* vector_results is read only, the others are in combined_results
KeywordListAfterRank(vector_list, keyword_list, top_k, request_tags) ==
  LET final_results == FinalResults(vector_list, keyword_list, request_tags)
  IN [j \in 1..Len(keyword_list) |->
        IF \E v \in 1..Len(vector_list) : vector_list[v].id = keyword_list[j].id
        THEN keyword_list[j]
        ELSE DictAfterRank(keyword_list[j].id, final_results, top_k)]

(***************************************************************************)
(* The Result Cache boundary: _check_cache and _cache_results              *)
(***************************************************************************)
\* the tags go into cache_params in the order of the request
CacheKey_Unsorted(query_text, project_id, tags, limit) ==
  <<query_text, project_id, tags, limit>>

\* cache_params, hashed into the key "search:<md5>"
CacheKey(query_text, project_id, tags, limit) ==
  <<query_text, project_id, IF tags # <<>> THEN Sorted(tags) ELSE <<>>, limit>>

\* The Python types of the values of a result dict: id and project_id come
\* from UUID(as_uuid=True) columns, created_at from a DateTime column.
FieldType ==
  [id |-> "UUID", content |-> "str", summary |-> "str", tags |-> "list",
   project_id |-> "UUID", created_at |-> "datetime", score |-> "float",
   search_type |-> "str", rank |-> "int"]

JsonTypes == {"str", "int", "float", "list", "dict", "bool", "NoneType"}

\* json.dumps(results) returns the text, or raises TypeError at the first
\* value it has no encoding for
JsonDumpsRaises(result_list) ==
  \E i \in 1..Len(result_list) : \E f \in DOMAIN result_list[i] : FieldType[f] \notin JsonTypes

(***************************************************************************)
(* The string-valued steps above, tabulated over the requests and rows of  *)
(* the model, so that each is evaluated once.                              *)
(***************************************************************************)
\* "if not query"
QueryInvalid_NoStrip(q) == q = ""

\* "if not query or not query.strip()"
QueryInvalid(q) == q = "" \/ Strip(q) = ""

QueryTab ==
  Table([q \in Queries |->
     [invalid |-> QueryInvalid(q),
      stripped |-> Strip(q),
      token_segments |-> Tokenize(Split(Strip(q)))]])

StrippedQueries == {QueryTab[q].stripped : q \in Queries}

KeyTab ==
  Table([q \in StrippedQueries, p \in Projects, t \in TagLists, l \in Limits |->
     CacheKey(q, p, t, l)])

VectorRowIdsTab ==
  Table([S \in SUBSET MemoryIds, p \in Projects, t \in TagLists |->
     VectorRowIds(S, p, t)])

\* keyword_search from a healthy store holding the rows S
KeywordTab ==
  Table([q \in StrippedQueries, S \in SUBSET MemoryIds, p \in Projects, l \in Limits |->
     LET token_segments == Tokenize(Split(q))
     IN IF token_segments = <<>> THEN <<>>
        ELSE KeywordCandidates(KeywordRows(S, token_segments, p, l),
                               token_segments, l, q)])

\* keyword_search from a healthy store holding the rows S and a batch
BatchQueries == {QueryTab[r.query].stripped : r \in BatchRequests}

KeywordBatchTab ==
  Table([q \in BatchQueries, S \in SUBSET MemoryIds, p \in Projects, l \in Limits |->
     LET token_segments == Tokenize(Split(q))
     IN IF token_segments = <<>> THEN <<>>
        ELSE KeywordCandidates(KeywordRows(S \cup BatchIds, token_segments, p, l),
                               token_segments, l, q)])

(***************************************************************************)
(* State.                                                                  *)
(***************************************************************************)
VARIABLES
  store,             \* ids of the rows of table memories
  cache,             \* Redis: cache key -> result list stored under it
  pc,                \* where the running search_memory call is
  req,               \* its arguments
  redis,             \* whether get_redis gives the services a client
  query,             \* the stripped query
  query_embedding,   \* <<>> when no embedding is available
  vector_results,
  keyword_results,
  results,           \* the list search_memory returns
  error,             \* the exception search_memory raises, or None
  txFailed,          \* the call's AsyncSession holds a failed transaction
  ops,               \* collaborator operations of the call, in order
  obs,               \* what happened in the call (see NoObs)
  prev,              \* the previous completed call
  other,             \* a second call of search_memory, suspended at an await
  nSearches

callVars == <<pc, req, redis, query, query_embedding, vector_results,
              keyword_results, results, error, txFailed, ops, obs>>
vars == <<store, cache, pc, req, redis, query, query_embedding, vector_results,
          keyword_results, results, error, txFailed, ops, obs, prev, other,
          nSearches>>

DefaultReq == CHOOSE r \in Requests : TRUE

NoEntry == [found |-> FALSE, value |-> <<>>]

\* Observations of one call: the entry the cache read found, the outcome of
\* each collaborator, what the store did with each retriever's query, and the
\* candidates a healthy store query would have given each retriever at the
\* time it ran.
NoObs ==
  [cached |-> NoEntry, cacheRead |-> "none", cacheWrite |-> "none",
   embed |-> "none", vector |-> "none", keyword |-> "none",
   vectorFault |-> "none", keywordFault |-> "none",
   vectorHealthy |-> <<>>, keywordHealthy |-> <<>>,
   readKey |-> <<>>, writeKey |-> <<>>]

NoPrev == [valid |-> FALSE, req |-> DefaultReq, results |-> <<>>,
           cacheUp |-> FALSE, expired |-> FALSE]

\* The locals of a call that has not begun
IdleCall ==
  [pc |-> "idle", req |-> DefaultReq, query |-> "", query_embedding |-> <<>>,
   vector_results |-> <<>>, keyword_results |-> <<>>, results |-> <<>>,
   error |-> None, txFailed |-> FALSE, ops |-> <<>>, obs |-> NoObs]

Init ==
  /\ other = IdleCall
  /\ store = {}
  /\ cache = <<>>
  /\ pc = "idle"
  /\ req = DefaultReq
  /\ redis \in BOOLEAN
  /\ query = ""
  /\ query_embedding = <<>>
  /\ vector_results = <<>>
  /\ keyword_results = <<>>
  /\ results = <<>>
  /\ error = None
  /\ txFailed = FALSE
  /\ ops = <<>>
  /\ obs = NoObs
  /\ prev = NoPrev
  /\ nSearches = 0

(***************************************************************************)
(* search_memory, one action per stretch between two awaits.               *)
(***************************************************************************)
\* A request arrives; get_search_service builds the service on a fresh
\* session (get_db_session).  prev is kept while the request is repeated.
StartSearch(r) ==
  /\ UNCHANGED other
  /\ pc = "idle"
  /\ nSearches < MaxSearches
  /\ nSearches' = nSearches + 1
  /\ req' = r
  /\ query_embedding' = <<>>
  /\ vector_results' = <<>>
  /\ keyword_results' = <<>>
  /\ results' = <<>>
  /\ txFailed' = FALSE
  /\ ops' = <<>>
  /\ obs' = NoObs
  /\ IF QueryTab[r.query].invalid
     THEN /\ pc' = "raised"
          /\ error' = "ValueError"
          /\ query' = r.query
     ELSE /\ pc' = "check_cache"
          /\ error' = None
          /\ query' = QueryTab[r.query].stripped
  /\ prev' = IF prev.valid /\ prev.req = r THEN prev ELSE NoPrev
  /\ UNCHANGED <<store, cache, redis>>

\* cache_key of _check_cache
TheKey == KeyTab[query, req.project_id, req.tags, req.limit]

\* cache_key of _cache_results
TheWriteKey == KeyTab[query, req.project_id, req.tags, req.limit]

\* an entry of results without provenance counts as a miss
Truthy_Tagged(list) ==
  list # <<>> /\ \A j \in 1..Len(list) : "search_type" \in DOMAIN list[j]

\* "if cached_results:" in search_memory
Truthy(list) == list # <<>>

\* the failure of redis.get leaves _check_cache as an exception
CacheGetFailed_Raises == [pc |-> "raised", error |-> "RedisError"]

\* "except Exception: ... return None" in _check_cache: a miss
CacheGetFailed == [pc |-> "embed", error |-> None]

\* _check_cache and the test of its result
CheckCache ==
  /\ UNCHANGED other
  /\ pc = "check_cache"
  /\ IF ~redis
     THEN /\ pc' = "embed"
          /\ UNCHANGED <<ops, obs, results, error>>
     ELSE \E getRaises \in BOOLEAN :
            /\ ops' = Append(ops, "cache_get")
            /\ IF getRaises
               THEN /\ obs' = [obs EXCEPT !.cacheRead = "failed", !.readKey = TheKey]
                    /\ pc' = CacheGetFailed.pc
                    /\ error' = CacheGetFailed.error
                    /\ UNCHANGED results
               ELSE LET entry == IF TheKey \in DOMAIN cache
                                 THEN [found |-> TRUE, value |-> cache[TheKey]]
                                 ELSE NoEntry
                    IN /\ obs' = [obs EXCEPT !.cacheRead = "ok", !.cached = entry,
                                             !.readKey = TheKey]
                       /\ IF entry.found /\ Truthy(entry.value)
                          THEN /\ results' = entry.value
                               /\ pc' = "done"
                          ELSE /\ pc' = "embed"
                               /\ UNCHANGED results
                       /\ UNCHANGED error
  /\ UNCHANGED <<store, cache, req, redis, query, query_embedding, vector_results,
                 keyword_results, txFailed, prev, nSearches>>

\* The Embedding Provider, a function of the text
EmbedQuery(q) == IF q = "how to" THEN <<0 - 3, 4>> ELSE <<3, 4>>

\* embed_query in a worker thread; any exception leaves query_embedding None
Embed ==
  /\ UNCHANGED other
  /\ pc = "embed"
  /\ \E outcome \in {"ok", "raises", "empty"} :
       /\ query_embedding' = IF outcome = "ok" THEN EmbedQuery(query) ELSE <<>>
       /\ obs' = [obs EXCEPT !.embed = outcome]
  /\ ops' = Append(ops, "embed")
  /\ pc' = "vector"
  /\ UNCHANGED <<store, cache, req, redis, query, vector_results, keyword_results,
                 results, error, txFailed, prev, nSearches>>

\* self.db.execute on the call's session.  The statement is answered ("ok"),
\* fails inside the session's transaction ("aborted": an error of the
\* statement or a lost connection), or fails before the session has a
\* transaction to spoil ("refused": no connection could be had).
QueryFaults == {"ok", "aborted", "refused"}

\* it raises on a fault, and on a session whose transaction failed before and
\* was not rolled back
ExecuteRaises(fault) == fault # "ok" \/ txFailed

\* A statement that fails inside the transaction leaves the session's
\* transaction failed until rollback() is called on the session.
TxAfter(fault) == txFailed \/ fault = "aborted"

RowsOf(order) == [i \in 1..Len(order) |-> Memory(order[i])]

\* What the error path of a retriever does with the session before it
\* returns []: nothing
AfterRetrieverError(failed) == failed

\* keyword_search is left out when the vector retriever found something
AfterVectorSearch_IfEmpty(vector_list) == IF vector_list = <<>> THEN "keyword" ELSE "rank"

\* search_memory awaits keyword_search next, whatever _vector_search returned
AfterVectorSearch(vector_list) == "keyword"

\* the guard is missing
NoEmbedding_Unchecked(e) == FALSE

\* "if not query_embedding"
NoEmbedding(e) == e = <<>>

_vector_search ==
  /\ UNCHANGED other
  /\ pc = "vector"
  /\ IF NoEmbedding(query_embedding)
     THEN /\ vector_results' = <<>>
          /\ ops' = Append(ops, "vector_search")
          /\ obs' = [obs EXCEPT !.vector = "skipped"]
          /\ UNCHANGED txFailed
     ELSE \E fault \in QueryFaults :
          \E order \in SeqsOf(VectorRowIdsTab[store \cap MemoryIds, req.project_id, req.tags]) :
            LET healthy == VectorCandidates(RowsOf(order), query_embedding, req.limit,
                                            req.similarity_threshold)
            IN /\ ops' = ops \o <<"vector_search", "store_query_vector">>
               /\ IF ExecuteRaises(fault)
                  THEN /\ vector_results' = <<>>
                       /\ txFailed' = AfterRetrieverError(TxAfter(fault))
                       /\ obs' = [obs EXCEPT !.vector = IF fault = "ok" THEN "session_failed"
                                                        ELSE "store_failed",
                                             !.vectorFault = fault,
                                             !.vectorHealthy = healthy]
                  ELSE /\ vector_results' = healthy
                       /\ UNCHANGED txFailed
                       /\ obs' = [obs EXCEPT !.vector = "ok", !.vectorFault = fault,
                                             !.vectorHealthy = healthy]
  /\ pc' = AfterVectorSearch(vector_results')
  /\ UNCHANGED <<store, cache, req, redis, query, query_embedding, keyword_results,
                 results, error, prev, nSearches>>

keyword_search ==
  /\ UNCHANGED other
  /\ pc = "keyword"
  /\ LET token_segments == QueryTab[req.query].token_segments
     IN IF token_segments = <<>>
        THEN /\ keyword_results' = <<>>
             /\ ops' = Append(ops, "keyword_search")
             /\ obs' = [obs EXCEPT !.keyword = "skipped"]
             /\ UNCHANGED txFailed
        ELSE \E fault \in QueryFaults :
               LET healthy ==
                     IF BatchIds \subseteq store
                     THEN KeywordBatchTab[query, store \cap MemoryIds, req.project_id,
                                          req.limit]
                     ELSE KeywordTab[query, store, req.project_id, req.limit]
               IN /\ ops' = ops \o <<"keyword_search", "store_query_keyword">>
                  /\ IF ExecuteRaises(fault)
                     THEN /\ keyword_results' = <<>>
                          /\ txFailed' = AfterRetrieverError(TxAfter(fault))
                          /\ obs' = [obs EXCEPT !.keyword = IF fault = "ok" THEN "session_failed"
                                                            ELSE "store_failed",
                                                !.keywordFault = fault,
                                                !.keywordHealthy = healthy]
                     ELSE /\ keyword_results' = healthy
                          /\ UNCHANGED txFailed
                          /\ obs' = [obs EXCEPT !.keyword = "ok", !.keywordFault = fault,
                                                !.keywordHealthy = healthy]
  /\ pc' = "rank"
  /\ UNCHANGED <<store, cache, req, redis, query, query_embedding, vector_results,
                 results, error, prev, nSearches>>

\* the list is added to the list that is there
CachePut_Append(c, key, value) ==
  [k \in DOMAIN c \cup {key} |->
     IF k = key THEN (IF key \in DOMAIN c THEN c[key] \o value ELSE value) ELSE c[k]]

\* redis.setex(cache_key, 3600, json.dumps(results))
CachePut(c, key, value) ==
  [k \in DOMAIN c \cup {key} |-> IF k = key THEN value ELSE c[k]]

\* _rank_results, then _cache_results, then "return results": no await between
RankAndCache ==
  /\ UNCHANGED other
  /\ pc = "rank"
  /\ LET ranked == _rank_results(vector_results, keyword_results, req.top_k, req.tags)
     IN /\ results' = ranked
        /\ vector_results' = VectorListAfterRank(vector_results, keyword_results,
                                                 req.top_k, req.tags)
        /\ keyword_results' = KeywordListAfterRank(vector_results, keyword_results,
                                                   req.top_k, req.tags)
        /\ IF ~redis
           THEN /\ ops' = Append(ops, "rank")
                /\ UNCHANGED <<cache, obs>>
           ELSE IF JsonDumpsRaises(ranked)
           THEN /\ ops' = Append(ops, "rank")
                /\ obs' = [obs EXCEPT !.cacheWrite = "not_serializable",
                                      !.writeKey = TheWriteKey]
                /\ UNCHANGED cache
           ELSE \E setexRaises \in BOOLEAN :
                  /\ ops' = ops \o <<"rank", "cache_set">>
                  /\ IF setexRaises
                     THEN /\ obs' = [obs EXCEPT !.cacheWrite = "failed",
                                                !.writeKey = TheWriteKey]
                          /\ UNCHANGED cache
                     ELSE /\ obs' = [obs EXCEPT !.cacheWrite = "ok",
                                                !.writeKey = TheWriteKey]
                          /\ cache' = CachePut(cache, TheWriteKey, ranked)
  /\ pc' = "done"
  /\ UNCHANGED <<store, req, redis, query, query_embedding, error, txFailed, prev,
                 nSearches>>


(***************************************************************************)
(* VectorSearchService.similarity_search, the query on the pgvector index  *)
(* (app/services/vector_search_service.py).                                *)
(***************************************************************************)
\* 1 - (embedding <=> :query_embedding): the cosine of the two vectors
PgSimilarity(a, b) ==
  (Dot(a, b) * ONE) \div (ISqrt(Dot(a, a)) * ISqrt(Dot(b, b)))

\* <=> raises on two vectors of different dimensions
PgDimensionError(rowIds, project_id, embedding) ==
  \E i \in rowIds : /\ Memory(i).project_id = project_id
                    /\ Memory(i).embedding # <<>>
                    /\ Len(Memory(i).embedding) # Len(embedding)

AnnBefore(a, b) == a.similarity_score > b.similarity_score

\* WHERE project_id = ... AND embedding IS NOT NULL AND similarity >= threshold
\* ORDER BY distance LIMIT limit, as the list of (Memory, similarity_score)
AnnResults(order, embedding, limit, similarity_threshold) ==
  LET scored == [i \in 1..Len(order) |->
                   [memory |-> order[i],
                    similarity_score |-> PgSimilarity(Memory(order[i]).embedding, embedding)]]
      kept == SelectSeq(scored, LAMBDA x : x.similarity_score >= similarity_threshold)
  IN Take(SortDesc(kept, AnnBefore), limit)

\* The whole call: embedding, query, result list; every exception gives [].
\* obs.vectorHealthy holds what the in-process scan of _vector_search finds
\* in the same rows.
similarity_search(r) ==
  /\ UNCHANGED other
  /\ pc = "idle"
  /\ r.project_id # None
  /\ ~QueryTab[r.query].invalid
  /\ \E outcome \in {"ok", "raises", "empty"} :
     \E fault \in QueryFaults :
     \E order \in SeqsOf(VectorRowIdsTab[store \cap MemoryIds, r.project_id, <<>>]) :
       LET embedding == IF outcome = "ok" THEN EmbedQuery(r.query) ELSE <<>>
           raises == fault # "ok" \/ PgDimensionError(store, r.project_id, embedding)
           scan == VectorCandidates(RowsOf(order), embedding, r.limit,
                                    r.similarity_threshold)
       IN /\ query_embedding' = embedding
          /\ IF embedding = <<>>
             THEN /\ ops' = <<"embed">>
                  /\ results' = <<>>
                  /\ txFailed' = FALSE
                  /\ obs' = [NoObs EXCEPT !.embed = outcome, !.vector = "skipped"]
             ELSE /\ ops' = <<"embed", "store_query_ann">>
                  /\ results' = IF raises THEN <<>>
                                ELSE AnnResults(order, embedding, r.limit,
                                                r.similarity_threshold)
                  /\ txFailed' = (raises /\ fault # "refused")
                  /\ obs' = [NoObs EXCEPT !.embed = outcome,
                                          !.vector = IF raises THEN "store_failed" ELSE "ok",
                                          !.vectorFault = fault,
                                          !.vectorHealthy = scan]
  /\ req' = r
  /\ query' = r.query
  /\ pc' = "returned_ann"
  /\ prev' = NoPrev
  /\ UNCHANGED <<store, cache, redis, vector_results, keyword_results, error, nSearches>>

\* search_memory has returned or raised: the route answers, the locals of the
\* call are gone and get_db_session closes the session.
Return ==
  /\ UNCHANGED other
  /\ pc \in {"done", "raised", "returned_ann"}
  /\ pc' = "idle"
  /\ prev' = IF pc = "done" /\ redis /\ obs.cacheRead # "failed"
                              /\ obs.cacheWrite # "failed"
             THEN [valid |-> TRUE, req |-> req, results |-> results,
                   cacheUp |-> TRUE, expired |-> FALSE]
             ELSE NoPrev
  /\ req' = DefaultReq
  /\ query' = ""
  /\ query_embedding' = <<>>
  /\ vector_results' = <<>>
  /\ keyword_results' = <<>>
  /\ results' = <<>>
  /\ error' = None
  /\ txFailed' = FALSE
  /\ ops' = <<>>
  /\ obs' = NoObs
  /\ UNCHANGED <<store, cache, redis, nSearches>>

(***************************************************************************)
(* The rest of the application and the passing of time.                    *)
(***************************************************************************)
\* The commits of other requests are taken between two calls of search_memory.
CommitPoint == pc = "idle"

\* SaveMemoryService.save_memory: a new row; no "search:" key is touched
SaveMemory(i) ==
  /\ UNCHANGED other
  /\ CommitPoint
  /\ i \in MemoryIds \ store
  /\ store' = store \cup {i}
  /\ UNCHANGED <<cache, prev, nSearches>>
  /\ UNCHANGED callVars

\* FETCH_MIN calls of save_memory, one after the other
SaveBatch ==
  /\ UNCHANGED other
  /\ CommitPoint
  /\ BatchIds \cap store = {}
  /\ store' = store \cup BatchIds
  /\ UNCHANGED <<cache, prev, nSearches>>
  /\ UNCHANGED callVars

\* delete_memory: the row is deleted and committed, then the keys
\* memory:<id>, project:<pid>:memories and user:<uid>:recent_memories are
\* cleaned; no "search:" key is touched
DeleteMemory(i) ==
  /\ UNCHANGED other
  /\ CommitPoint
  /\ i \in store
  /\ store' = store \ {i}
  /\ UNCHANGED <<cache, prev, nSearches>>
  /\ UNCHANGED callVars

\* A result dict as json.loads gives it, without the key "search_type"
OlderResult(i, score, rank) ==
  [id |-> i, content |-> Memory(i).content, summary |-> Memory(i).summary,
   tags |-> Memory(i).tags, project_id |-> Memory(i).project_id,
   created_at |-> Memory(i).created_at, score |-> score, rank |-> rank]

\* The list an earlier generation of the service cached for a search with
\* top_k = 2 that found the rows 1 and 3.
OlderEntry == <<OlderResult(1, ONE \div 2, 1), OlderResult(3, ONE \div 4, 2)>>

\* The Redis of get_redis outlives a deployment: an entry written by an
\* earlier generation, for a search that found the rows of OlderEntry in the
\* store, is found under the key of request r.
OlderGenerationSearch(r) ==
  /\ UNCHANGED other
  /\ pc = "idle"
  /\ redis
  /\ \A j \in 1..Len(OlderEntry) : OlderEntry[j].id \in store
  /\ nSearches < MaxSearches
  /\ ~QueryTab[r.query].invalid
  /\ KeyTab[QueryTab[r.query].stripped, r.project_id, r.tags, r.limit] \notin DOMAIN cache
  /\ cache' = CachePut(cache,
                       KeyTab[QueryTab[r.query].stripped, r.project_id, r.tags, r.limit],
                       OlderEntry)
  /\ nSearches' = nSearches + 1
  /\ prev' = NoPrev
  /\ UNCHANGED store
  /\ UNCHANGED callVars

\* An entry outlives CACHE_TTL seconds
ExpireCache(k) ==
  /\ UNCHANGED other
  /\ pc = "idle"
  /\ k \in DOMAIN cache
  /\ cache' = [j \in DOMAIN cache \ {k} |-> cache[j]]
  /\ prev' = NoPrev
  /\ UNCHANGED <<store, nSearches>>
  /\ UNCHANGED callVars

Next ==
  \/ \E r \in Requests : StartSearch(r)
  \/ CheckCache
  \/ Embed
  \/ _vector_search
  \/ keyword_search
  \/ RankAndCache
  \/ Return
  \/ \E i \in MemoryIds : SaveMemory(i)
  \/ \E i \in MemoryIds : DeleteMemory(i)
  \/ \E k \in DOMAIN cache : ExpireCache(k)
  \/ \E r \in Requests : OlderGenerationSearch(r)
  \/ \E r \in Requests : similarity_search(r)

Spec == Init /\ [][Next]_vars

\* The searches of BatchRequests over a store that takes single rows and a
\* batch of rows
\* The requests of two concurrent calls: one fingerprint, two values of top_k
ConcRequests ==
  {Request("JWT authentication flow", None, <<>>, 2, 2),
   Request("JWT authentication flow", None, <<>>, 2, 1)}

\* The event loop (or another worker process) goes on with the other call.
\* The running call is suspended before one of its cache operations or when
\* it is over: its other steps touch nothing that the two calls share.
Switch ==
  /\ pc \in {"idle", "check_cache", "rank", "done", "raised"}
  /\ other' = [pc |-> pc, req |-> req, query |-> query,
               query_embedding |-> query_embedding, vector_results |-> vector_results,
               keyword_results |-> keyword_results, results |-> results,
               error |-> error, txFailed |-> txFailed, ops |-> ops, obs |-> obs]
  /\ other' # other
  /\ pc' = other.pc
  /\ req' = other.req
  /\ query' = other.query
  /\ query_embedding' = other.query_embedding
  /\ vector_results' = other.vector_results
  /\ keyword_results' = other.keyword_results
  /\ results' = other.results
  /\ error' = other.error
  /\ txFailed' = other.txFailed
  /\ ops' = other.ops
  /\ obs' = other.obs
  /\ UNCHANGED <<store, cache, redis, prev, nSearches>>

\* Redis as two concurrent calls find it: empty, or with an entry of an
\* earlier generation under the key of their requests
InitConc ==
  /\ other = IdleCall
  /\ store \in {{}, {1}}
  /\ redis = TRUE
  /\ cache \in {<<>>, CachePut(<<>>, KeyTab["JWT authentication flow", None, <<>>, 2],
                                OlderEntry)}
  /\ pc = "idle"
  /\ req = DefaultReq
  /\ query = ""
  /\ query_embedding = <<>>
  /\ vector_results = <<>>
  /\ keyword_results = <<>>
  /\ results = <<>>
  /\ error = None
  /\ txFailed = FALSE
  /\ ops = <<>>
  /\ obs = NoObs
  /\ prev = NoPrev
  /\ nSearches = 0

NextConc ==
  \/ \E r \in ConcRequests : StartSearch(r)
  \/ CheckCache
  \/ Embed
  \/ _vector_search
  \/ keyword_search
  \/ RankAndCache
  \/ Return
  \/ Switch

SpecConc == InitConc /\ [][NextConc]_vars

NextBatch ==
  \/ \E r \in BatchRequests : StartSearch(r)
  \/ CheckCache
  \/ Embed
  \/ _vector_search
  \/ keyword_search
  \/ RankAndCache
  \/ Return
  \/ \E i \in MemoryIds : SaveMemory(i)
  \/ SaveBatch
  \/ \E i \in MemoryIds : DeleteMemory(i)

SpecBatch == Init /\ [][NextBatch]_vars

(***************************************************************************)
(* Properties of search_memory.                                            *)
(***************************************************************************)
Returned == pc = "done"
Computed == Returned /\ "rank" \in Range(ops)
InList(list, id) == \E j \in 1..Len(list) : list[j].id = id
ScoreIn(list, id) == (CHOOSE j \in 1..Len(list) : list[j].id = id)
StoreFailed(outcome) == outcome \in {"store_failed", "session_failed"}
VectorGiven == IF obs.vector = "ok" THEN obs.vectorHealthy ELSE <<>>
KeywordGiven == IF obs.keyword = "ok" THEN obs.keywordHealthy ELSE <<>>
HealthyRanking ==
  _rank_results(obs.vectorHealthy, obs.keywordHealthy, req.top_k, req.tags)

\* C1: every result of a returned list has a score in [0, 1], whether the
\* score went through the hybrid boost, the tag boost, both or neither.
C1_ScoreInUnitInterval ==
  Returned => \A i \in 1..Len(results) :
                 results[i].score >= 0 /\ results[i].score <= ONE

\* a record found by both retrievers whose weighted sum with the hybrid
\* boost is above 1 and is returned with the score 1
C1_Witness ==
  /\ Computed
  /\ \E i \in 1..Len(results) :
       LET id == results[i].id
       IN  /\ results[i].search_type = "hybrid"
           /\ results[i].score = ONE
           /\ InList(VectorGiven, id) /\ InList(KeywordGiven, id)
           /\ Weighted(VectorGiven[ScoreIn(VectorGiven, id)].score, VECTOR_WEIGHT)
                + Weighted(KeywordGiven[ScoreIn(KeywordGiven, id)].score,
                           KEYWORD_WEIGHT)
                + HYBRID_BOOST > ONE

\* C2: the returned list is in non-increasing order of the final score (the
\* score after the tag boost) and the ranks are 1..N in the order of the list.
C2_SortedAndRanked ==
  Returned => \A i \in 1..Len(results) :
                 /\ results[i].rank = i
                 /\ i < Len(results) => results[i].score >= results[i + 1].score

\* the tag boost lifted the first result above the second
C2_Witness ==
  /\ Computed
  /\ Len(results) >= 2
  /\ TagMatchTab[results[1].tags, req.tags]
  /\ ~TagMatchTab[results[2].tags, req.tags]
  /\ results[1].score - TAG_BOOST < results[2].score

\* C3: a record of both candidate lists is returned as "hybrid" with a final
\* score at least each of its two weighted scores, and a record of one list
\* only is never returned as "hybrid".
C3_HybridProvenance ==
  Computed =>
    \A i \in 1..Len(results) :
      LET id  == results[i].id
          inV == InList(VectorGiven, id)
          inK == InList(KeywordGiven, id)
      IN  /\ (inV /\ inK) =>
                /\ results[i].search_type = "hybrid"
                /\ results[i].score >=
                     Weighted(VectorGiven[ScoreIn(VectorGiven, id)].score,
                              VECTOR_WEIGHT)
                /\ results[i].score >=
                     Weighted(KeywordGiven[ScoreIn(KeywordGiven, id)].score,
                              KEYWORD_WEIGHT)
          /\ results[i].search_type = "hybrid" => (inV /\ inK)

\* a returned list with a record of both candidate lists next to a record of
\* one list only
C3_Witness ==
  /\ Computed
  /\ \E i \in 1..Len(results) :
       InList(VectorGiven, results[i].id) /\ InList(KeywordGiven, results[i].id)
  /\ \E i \in 1..Len(results) :
       ~(InList(VectorGiven, results[i].id) /\ InList(KeywordGiven, results[i].id))

\* C4: when a request is repeated while its cache entry has not expired and
\* the cache works, the second call returns the list the first call returned,
\* whatever was saved or deleted in between.
C4_RepeatIsIdentical ==
  (/\ Returned
   /\ prev.valid /\ prev.req = req
   /\ prev.cacheUp /\ ~prev.expired
   /\ redis /\ obs.cacheRead = "ok")
    => results = prev.results

\* C5: a call with an empty or whitespace-only query ends in ValueError with
\* no cache read, embedding, store query or cache write, and with the cache
\* and the store as they were.
C5_InvalidQueryRejectedFirst ==
  [][(pc = "idle" /\ pc' # "idle" /\ QueryTab[req'.query].stripped = "")
       => /\ pc' = "raised"
          /\ error' = "ValueError"
          /\ ops' = <<>>
          /\ cache' = cache
          /\ store' = store]_vars

\* a whitespace-only query was rejected while the cache held an entry
C5_Witness ==
  /\ pc = "raised"
  /\ error = "ValueError"
  /\ req.query = "  "
  /\ ops = <<>>
  /\ cache # <<>>

\* C6: when the embedding of a cache miss raises or is empty, the call still
\* returns; the vector retriever gave [] without a store query, the keyword
\* retriever ran, and every result is a "keyword" result.
C6_EmbeddingFailureDegrades ==
  (Returned /\ obs.embed \in {"raises", "empty"})
    => /\ error = None
       /\ vector_results = <<>>
       /\ "vector_search" \in Range(ops)
       /\ "store_query_vector" \notin Range(ops)
       /\ "keyword_search" \in Range(ops)
       /\ \A i \in 1..Len(results) : results[i].search_type = "keyword"

\* the embedding raised and the keyword retriever alone filled the list
C6_Witness ==
  /\ Returned
  /\ obs.embed = "raises"
  /\ "store_query_keyword" \in Range(ops)
  /\ results # <<>>

\* C7: whenever the cache holds an entry for the fingerprint of the request,
\* the empty list included, the call returns the entry and performs no
\* embedding, no store query and no cache write.
C7_CacheHitShortCircuits ==
  (Returned /\ obs.cacheRead = "ok" /\ obs.cached.found)
    => /\ results = obs.cached.value
       /\ ops = <<"cache_get">>

\* C8: when the store query of exactly one retriever fails, the other
\* retriever still runs its store query and the returned list is the ranking
\* of what the surviving retriever finds.
C8_OnePathFailureKeepsOther ==
  /\ (Returned /\ obs.vector = "store_failed" /\ obs.keyword # "store_failed")
       => results = _rank_results(<<>>, obs.keywordHealthy, req.top_k, req.tags)
  /\ (Returned /\ obs.keyword = "store_failed" /\ obs.vector = "ok")
       => results = _rank_results(obs.vectorHealthy, <<>>, req.top_k, req.tags)

\* C9: a call with a valid query never raises: it ends with a list; the list
\* is empty when both store queries failed, and it is the list of a service
\* without a cache when only cache operations failed.
C9_InfrastructureFailuresAbsorbed ==
  /\ pc = "raised" => QueryTab[req.query].stripped = ""
  /\ Returned => error = None
  /\ (Returned /\ StoreFailed(obs.vector) /\ StoreFailed(obs.keyword))
       => results = <<>>
  /\ (/\ Returned
      /\ obs.cacheRead = "failed" \/ obs.cacheWrite = "failed"
      /\ obs.embed = "ok" /\ obs.vector = "ok" /\ obs.keyword \in {"ok", "skipped"})
       => results = HealthyRanking

\* the cache read failed and both retrievers found their records
C9_Witness ==
  /\ Returned
  /\ obs.cacheRead = "failed"
  /\ obs.embed = "ok" /\ obs.vector = "ok" /\ obs.keyword = "ok"
  /\ results # <<>>

\* C10: a retriever whose store query failed leaves the session usable: the
\* failed transaction has been rolled back when the retriever returns [].
C10_RollbackAfterStoreError ==
  (obs.vector = "store_failed" \/ obs.keyword = "store_failed") => ~txFailed

\* The merge of the two candidate lists before the first sort and the tag
\* boosts, and the place of a record in the order of retrieval: the vector
\* list first, then the records of the keyword list alone.
Merged == AddKeywordResults(AddVectorResults(<<>>, VectorGiven), KeywordGiven)
GivenIds == {VectorGiven[j].id : j \in 1..Len(VectorGiven)}
              \cup {KeywordGiven[j].id : j \in 1..Len(KeywordGiven)}
RetrievalPos(id) ==
  IF InList(VectorGiven, id) THEN ScoreIn(VectorGiven, id)
  ELSE Len(VectorGiven) + ScoreIn(KeywordGiven, id)
ElementMatch(res_tags, request_tags) ==
  \E rt \in Range(NormTags(request_tags)) : rt \in Range(NormTags(res_tags))

C13_TagBoostOnElementOnly ==
  Computed =>
    LET final == FinalResults(VectorGiven, KeywordGiven, req.tags)
    IN \A j \in 1..Len(Merged) :
         LET e == Merged[j]
             f == final[CHOOSE i \in 1..Len(final) : final[i].id = e.id]
         IN f.combined_score =
              IF ElementMatch(e.tags, req.tags)
              THEN Min2(e.combined_score + TAG_BOOST, ONE)
              ELSE e.combined_score

\* C14: the output has at most top_k results, they are the top_k best of the
\* merged candidates, and results of equal final score stand in the order of
\* retrieval.
C14_TopKInRetrievalOrder ==
  Computed =>
    LET final == FinalResults(VectorGiven, KeywordGiven, req.tags)
    IN /\ Len(results) = Min2(req.top_k, Cardinality(GivenIds))
       /\ \A i \in 1..Len(results) : results[i].id \in GivenIds
       /\ \A j \in 1..Len(final) :
            ~InList(results, final[j].id) =>
               \A i \in 1..Len(results) : final[j].combined_score <= results[i].score
       /\ \A i, j \in 1..Len(results) :
            (i < j /\ results[i].score = results[j].score)
              => RetrievalPos(results[i].id) < RetrievalPos(results[j].id)

\* C15: _rank_results leaves the two candidate lists as they were, and called
\* again on them it gives the same result.
C15_RankLeavesInputs ==
  [][pc = "rank" =>
       /\ vector_results' = vector_results
       /\ keyword_results' = keyword_results
       /\ _rank_results(vector_results', keyword_results', req.top_k, req.tags)
            = results']_vars

OpAt(op) == CHOOSE i \in 1..Len(ops) : ops[i] = op
ValidRequests == {r \in AllRequests : QueryTab[r.query].stripped # ""}
KeyOf(r) == KeyTab[QueryTab[r.query].stripped, r.project_id, r.tags, r.limit]

\* C16: a search that misses the cache invokes the vector retriever and then
\* the keyword retriever, whatever the first one returned; the ranker runs
\* after both, and the cache write after the ranker.
C16_BothRetrieversThenRank ==
  /\ (Returned /\ "embed" \in Range(ops)) => "rank" \in Range(ops)
  /\ "rank" \in Range(ops) =>
       /\ "vector_search" \in Range(ops) /\ "keyword_search" \in Range(ops)
       /\ OpAt("vector_search") < OpAt("rank")
       /\ OpAt("keyword_search") < OpAt("rank")
  /\ "cache_set" \in Range(ops) =>
       /\ "rank" \in Range(ops)
       /\ OpAt("rank") < OpAt("cache_set")

\* the store query of the vector retriever failed, the keyword retriever was
\* invoked all the same, and the (empty) ranking was written to the cache
C16_Witness ==
  /\ Returned
  /\ obs.vector = "store_failed"
  /\ "store_query_keyword" \in Range(ops)
  /\ obs.cacheWrite = "ok"

\* The keys of any two valid requests are equal exactly when the requests
\* agree in the trimmed query, the project, the set of tags and the limit.
KeysSeparate ==
  \A r1, r2 \in ValidRequests :
    (KeyOf(r1) = KeyOf(r2))
      <=> /\ QueryTab[r1.query].stripped = QueryTab[r2.query].stripped
          /\ r1.project_id = r2.project_id
          /\ Range(r1.tags) = Range(r2.tags)
          /\ r1.limit = r2.limit

\* C17: the cache read and the cache write of one search use the same key, and
\* the key is a function of exactly the trimmed query, the project, the sorted
\* tags and the limit: the order of the tags and blanks around the query do
\* not change it, any other difference in those four does.
C17_OneKeyPerFingerprint ==
  /\ KeysSeparate
  /\ obs.readKey # <<>> => obs.readKey = KeyOf(req)
  /\ obs.writeKey # <<>> => obs.writeKey = obs.readKey

\* a search whose tags were given as sql, sec wrote its entry under sec, sql
C17_Witness ==
  /\ Returned
  /\ obs.cacheWrite = "ok"
  /\ req.tags = <<"sql", "sec">>
  /\ obs.writeKey \in DOMAIN cache
  /\ obs.writeKey[3] = <<"sec", "sql">>

HasProvenance(result) == "search_type" \in DOMAIN result

\* C11: when the cache read finds an entry whose results lack the provenance
\* tag, the results returned all carry a provenance tag and the repaired
\* entry has been written back to the cache.
C11_UntaggedEntryRepaired ==
  (/\ Returned
   /\ obs.cacheRead = "ok" /\ obs.cached.found
   /\ \E i \in 1..Len(obs.cached.value) : ~HasProvenance(obs.cached.value[i]))
    => /\ \A i \in 1..Len(results) :
            /\ HasProvenance(results[i])
            /\ results[i].search_type \in {"vector", "keyword", "hybrid"}
       /\ obs.readKey \in DOMAIN cache
       /\ \A i \in 1..Len(cache[obs.readKey]) : HasProvenance(cache[obs.readKey][i])

\* C20: when the query on the pgvector index raises, vector retrieval gives
\* the candidates of the in-process cosine scan over the rows in scope, not
\* an empty list.
C20_AnnErrorFallsBack ==
  (pc = "returned_ann" /\ obs.vector = "store_failed")
    => /\ Len(results) = Len(obs.vectorHealthy)
       /\ {results[i].memory : i \in 1..Len(results)}
            = {obs.vectorHealthy[i].id : i \in 1..Len(obs.vectorHealthy)}

\* The similarity of row i to the query of the running call, and the rows in
\* the scope of the request: its project and its tag filter.
SimOf(i) == _calculate_cosine_similarity(query_embedding, Memory(i).embedding)
Comparable(i) ==
  Memory(i).embedding # <<>> /\ Len(Memory(i).embedding) = Len(query_embedding)
InScope(i) ==
  /\ i \in store
  /\ req.project_id # None => Memory(i).project_id = req.project_id
  /\ req.tags # <<>> => TagFilterMatches(Memory(i), req.tags)

WordTokens(q) ==
  {w \in Range(FindWords(StrLower(q))) : w \notin STOPWORDS /\ Len(w) >= 3}
NoRepeat(s) == \A i, j \in 1..Len(s) : s[i] = s[j] => i = j

WordTokensTab == Table([q \in Queries \cup StrippedQueries |-> WordTokens(q)])

\* The token list of every query holds each of its word tokens once and
\* nothing else.
TokensAreWordTokens ==
  /\ \A q \in Queries \ {""} :
       /\ Range(QueryTab[q].token_segments) = WordTokensTab[q]
       /\ NoRepeat(QueryTab[q].token_segments)
  /\ Range(QueryTab["how to implement JWT authentication"].token_segments)
       = {"implement", "jwt", "authentication"}

\* C21: the token list of the keyword retriever holds each word token of the
\* query once and nothing else ("how to implement JWT authentication" gives
\* implement, jwt, authentication); when it is empty the retriever returns []
\* without a store query and without an error, and only then is the store
\* query left out.
C21_TokensAndEmptyTokenSet ==
  /\ TokensAreWordTokens
  /\ "keyword_search" \in Range(ops) =>
       /\ error = None
       /\ (WordTokensTab[req.query] = {}) <=> ("store_query_keyword" \notin Range(ops))
       /\ WordTokensTab[req.query] = {} => keyword_results = <<>> /\ obs.keyword = "skipped"

\* a query of stopwords only went through the keyword retriever and the call
\* returned
C21_Witness ==
  /\ Returned
  /\ "keyword_search" \in Range(ops)
  /\ req.query = " how to "
  /\ store # {}
  /\ "store_query_keyword" \notin Range(ops)
  /\ results = <<>>

\* The lowercased concatenation of content, summary and tags of row i, and
\* for a trimmed query q: how many of its word tokens occur in it, how many
\* there are, and whether the whole query occurs in it.
Concatenation(i) ==
  StrLower(Memory(i).content \o " " \o Memory(i).summary \o " "
             \o Join(Memory(i).tags, " "))
ConcatenationTab == Table([i \in MemoryIds \cup BatchIds |-> Concatenation(i)])
MatchTab ==
  Table([q \in StrippedQueries |-> [i \in MemoryIds \cup BatchIds |->
     [matched |-> Cardinality({t \in WordTokensTab[q] : Contains(ConcatenationTab[i], t)}),
      total   |-> Cardinality(WordTokensTab[q]),
      phrase  |-> Contains(ConcatenationTab[i], StrLower(q))]]])

\* C22: the score of every keyword candidate is
\* min(matched / total + bonus, 1.0), with the bonus 0.25 when the trimmed
\* query occurs in the lowercased concatenation of content, summary and tags
\* and 0 otherwise; every candidate matches a token, so its score is in (0, 1].
C22_KeywordScoreFormula ==
  obs.keyword = "ok" =>
    \A j \in 1..Len(obs.keywordHealthy) :
      LET c == obs.keywordHealthy[j]
          t == MatchTab[query][c.id]
          bonus == IF t.phrase THEN PHRASE_BOOST ELSE 0
      IN /\ t.matched > 0
         /\ c.score * t.total = Min2(t.matched * ONE + bonus * t.total, ONE * t.total)
         /\ c.score > 0 /\ c.score <= ONE

\* a candidate holding the whole query, clamped to 1.0, next to a candidate
\* that matches a part of the tokens
C22_Witness ==
  /\ obs.keyword = "ok"
  /\ \E j \in 1..Len(obs.keywordHealthy) :
       /\ MatchTab[query][obs.keywordHealthy[j].id].phrase
       /\ obs.keywordHealthy[j].score = ONE
  /\ \E j \in 1..Len(obs.keywordHealthy) :
       /\ ~MatchTab[query][obs.keywordHealthy[j].id].phrase
       /\ obs.keywordHealthy[j].score < ONE

\* The rows the keyword retriever can emit for the running call: those of
\* the request's project that match a token; and the weak ones among them.
KeywordInScope(i) ==
  /\ i \in store
  /\ req.project_id # None => Memory(i).project_id = req.project_id
  /\ MatchTab[query][i].matched > 0
Weak(i) ==
  /\ MatchTab[query][i].matched < MIN_MATCHED_TOKENS
  /\ MatchTab[query][i].matched * ONE < MIN_MATCH_RATIO * MatchTab[query][i].total
Strong == {i \in store : KeywordInScope(i) /\ ~Weak(i)}

\* C23: a row is rejected as a weak match only when it matches fewer than 2
\* tokens and its ratio is below 0.25: no weak row is a candidate, and every
\* other matching row is one as far as limit leaves room, whether or not it
\* holds the whole query.
C23_WeakMatchNeedsBoth ==
  obs.keyword = "ok" =>
    LET ids == {obs.keywordHealthy[j].id : j \in 1..Len(obs.keywordHealthy)}
    IN /\ ids \subseteq Strong
       /\ Len(obs.keywordHealthy) = Min2(req.limit, Cardinality(Strong))
       /\ \A i \in store :
            (KeywordInScope(i) /\ MatchTab[query][i].total <= 4) => i \in Strong

\* of a query of ten tokens one row matches one and is rejected, and another
\* matches two, a ratio of 0.2, and is a candidate
C23_Witness ==
  /\ obs.keyword = "ok"
  /\ \E i \in store : KeywordInScope(i) /\ Weak(i)
  /\ \E j \in 1..Len(obs.keywordHealthy) :
       LET t == MatchTab[query][obs.keywordHealthy[j].id]
       IN t.matched >= MIN_MATCHED_TOKENS /\ t.matched * ONE < MIN_MATCH_RATIO * t.total

\* For the running call: the score the keyword retriever gives row i, the
\* order (score, creation time) of a row against a candidate, and the rows
\* the store hands over: the matching rows of the scope with fewer than
\* max(5 * limit, 50) newer ones.
ExpectedScore(i) ==
  LET t == MatchTab[query][i]
  IN Min2((t.matched * ONE) \div t.total + (IF t.phrase THEN PHRASE_BOOST ELSE 0), ONE)
RowAbove(i, c) ==
  \/ ExpectedScore(i) > c.score
  \/ ExpectedScore(i) = c.score /\ Memory(i).created_at > c.created_at
FetchLimit == Max2(req.limit * FETCH_FACTOR, FETCH_MIN)
Fetched(i) ==
  /\ KeywordInScope(i)
  /\ Cardinality({j \in store : /\ KeywordInScope(j)
                                /\ Memory(j).created_at > Memory(i).created_at})
       < FetchLimit
KeywordListOrdered ==
  /\ Len(obs.keywordHealthy) <= req.limit
  /\ \A j \in 1..(Len(obs.keywordHealthy) - 1) :
       ~KeywordBefore(obs.keywordHealthy[j + 1], obs.keywordHealthy[j])

\* C24: the keyword retriever returns at most limit candidates in the order
\* (score descending, creation time descending), and no matching row of the
\* scope that is left out stands above a returned one in that order, however
\* many rows match.
C24_KeywordListIsBestOfAll ==
  obs.keyword = "ok" =>
    /\ KeywordListOrdered
    /\ \A i \in Strong :
         ~InList(obs.keywordHealthy, i) =>
            /\ Len(obs.keywordHealthy) = req.limit
            /\ \A j \in 1..Len(obs.keywordHealthy) : ~RowAbove(i, obs.keywordHealthy[j])

\* C24 as amended: the same, among the rows the store fetch returns: the
\* max(5 * limit, 50) newest matching rows of the scope.
C24_KeywordListIsBestOfFetched ==
  obs.keyword = "ok" =>
    /\ KeywordListOrdered
    /\ \A j \in 1..Len(obs.keywordHealthy) :
         /\ obs.keywordHealthy[j].id \in Strong
         /\ Fetched(obs.keywordHealthy[j].id)
         /\ obs.keywordHealthy[j].score = ExpectedScore(obs.keywordHealthy[j].id)
    /\ \A i \in Strong :
         (Fetched(i) /\ ~InList(obs.keywordHealthy, i)) =>
            /\ Len(obs.keywordHealthy) = req.limit
            /\ \A j \in 1..Len(obs.keywordHealthy) : ~RowAbove(i, obs.keywordHealthy[j])

\* more rows match than the fetch returns: the oldest one, which holds the
\* whole query, is not fetched, and limit newer rows are returned
C24_Witness ==
  /\ obs.keyword = "ok"
  /\ Cardinality({i \in store : KeywordInScope(i)}) > FetchLimit
  /\ \E i \in Strong : ~Fetched(i) /\ ExpectedScore(i) = ONE
  /\ Len(obs.keywordHealthy) = req.limit

\* The list search_memory returns when keyword_search is awaited before
\* _vector_search on the same session and the store does with each of the
\* two queries what it did in the running call.
ResultsKeywordFirst ==
  LET keywordRaises == obs.keywordFault # "ok"
      txAfterKeyword == obs.keywordFault = "aborted"
      keyword_list == IF obs.keyword = "skipped" \/ keywordRaises THEN <<>>
                      ELSE obs.keywordHealthy
      vectorRaises == obs.vectorFault # "ok" \/ AfterRetrieverError(txAfterKeyword)
      vector_list == IF obs.vector = "skipped" \/ vectorRaises THEN <<>>
                     ELSE obs.vectorHealthy
  IN _rank_results(vector_list, keyword_list, req.top_k, req.tags)

C26_EntriesAreWholeResults ==
  [][other' = other =>
       /\ cache' # cache =>
            /\ pc = "rank" /\ obs'.cacheWrite = "ok"
            /\ DOMAIN cache' = DOMAIN cache \cup {KeyOf(req)}
            /\ \A k \in DOMAIN cache \ {KeyOf(req)} : cache'[k] = cache[k]
       /\ (pc = "rank" /\ obs'.cacheWrite = "ok") =>
            /\ KeyOf(req) \in DOMAIN cache'
            /\ cache'[KeyOf(req)] = results'
            /\ results' = _rank_results(vector_results, keyword_results,
                                        req.top_k, req.tags)
       /\ (pc = "check_cache" /\ pc' = "done") =>
            /\ KeyOf(req) \in DOMAIN cache
            /\ results' = cache[KeyOf(req)]
       /\ (pc = "check_cache" /\ pc' # "done") => pc' = "embed"]_vars

\* two calls with one fingerprint and two values of top_k have both written
\* their list under the same key before either was over
C26_Witness ==
  /\ Returned /\ other.pc = "done"
  /\ req # other.req
  /\ obs.cacheWrite = "ok" /\ other.obs.cacheWrite = "ok"
  /\ obs.writeKey = other.obs.writeKey
  /\ obs.writeKey \in DOMAIN cache
  /\ cache[obs.writeKey] = results

IdsOf(list) == [j \in 1..Len(list) |-> list[j].id]

\* C27: no memory id occurs twice in the list the ranker returns, given two
\* candidate lists without a repeated id each; a record of both lists is
\* one result.
C27_NoDuplicateIds ==
  (Computed /\ NoRepeat(IdsOf(VectorGiven)) /\ NoRepeat(IdsOf(KeywordGiven)))
    => NoRepeat(IdsOf(results))

\* a record of both lists is returned once, next to another record
C27_Witness ==
  /\ Computed
  /\ NoRepeat(IdsOf(VectorGiven)) /\ NoRepeat(IdsOf(KeywordGiven))
  /\ Len(results) >= 2
  /\ \E i \in 1..Len(results) :
       /\ InList(VectorGiven, results[i].id) /\ InList(KeywordGiven, results[i].id)
       /\ Cardinality({j \in 1..Len(results) : results[j].id = results[i].id}) = 1

InProject(list) == \A j \in 1..Len(list) : list[j].project_id = req.project_id

\* C28: a call with a project scope returns results of that project only:
\* the lists of both retrievers hold rows of the project only, and an entry
\* served from the cache lies under a key that no request of another scope,
\* or of none, has.
C28_ResultsStayInProject ==
  req.project_id # None =>
    /\ Returned => InProject(results)
    /\ obs.vector = "ok" => InProject(obs.vectorHealthy)
    /\ obs.keyword = "ok" => InProject(obs.keywordHealthy)
    /\ (Returned /\ obs.cacheRead = "ok" /\ obs.cached.found) =>
         /\ obs.readKey = KeyOf(req)
         /\ \A r \in ValidRequests :
              r.project_id # req.project_id => KeyOf(r) # obs.readKey

\* a scoped call read the cache while it held an entry for the same query
\* without a scope, was not served it, and returned rows of its project from
\* a store holding a matching row of another project
C28_Witness ==
  /\ Computed
  /\ req.project_id = "p1"
  /\ obs.cacheRead = "ok" /\ ~obs.cached.found
  /\ KeyTab[query, None, req.tags, req.limit] \in DOMAIN cache
  /\ cache[KeyTab[query, None, req.tags, req.limit]] # <<>>
  /\ \E i \in store : Memory(i).project_id # "p1" /\ MatchTab[query][i].matched > 0
  /\ results # <<>>

ServedFromCache == Returned /\ obs.cacheRead = "ok" /\ obs.cached.found
                     /\ obs.cached.value # <<>>

====
